---- MODULE Spec2Model ----
(***************************************************************************)
(* Model of advent-feed (src/main.go): the single-slot freshness cache,    *)
(* the getFeed service, the upstream response classification done by       *)
(* fetchAdventCalendar and the feed builder buildAtomFeed.                 *)
(***************************************************************************)
EXTENDS Integers, Sequences, FiniteSets, TLC

\* ------------------------------------------------------------------------
\* Bounds of the model
\* ------------------------------------------------------------------------
NumProcs == 2      \* concurrent requests (goroutines running feedHandler)
MaxTime == 2       \* clock ticks
MaxTTL == 2        \* largest cache duration tried
MaxBuilds == 2     \* feeds built in one behaviour
MaxPrice == 50     \* largest price tried by the discount check
MaxProducts == 3   \* products in a calendar given to the builder
MaxStamp == 2      \* distinct parseable valid-from instants

\* A Go pointer (or error) is a sequence: Nil when nil, <<v>> when it points
\* to v.
Nil == <<>>
Ref(v) == <<v>>

\* ------------------------------------------------------------------------
\* float64 arithmetic of calculateDiscount.
\* A positive float64 is [e |-> exponent, f |-> fraction]: its value is
\* (1 + fraction / 2^52) * 2^e. The 52 fraction bits are kept as four digits
\* of 13 bits, most significant first. Division and multiplication round to
\* nearest, ties to even, as the hardware does.
\* ------------------------------------------------------------------------
DigitBits == 13

RECURSIVE Pow2(_)
Pow2(n) == IF n = 0 THEN 1 ELSE 2 * Pow2(n - 1)

Base == Pow2(DigitBits)

\* largest k >= 0 with b * 2^k <= a   (a >= b > 0)
RECURSIVE ExpUp(_, _)
ExpUp(a, b) == IF 2 * b <= a THEN 1 + ExpUp(a, 2 * b) ELSE 0

\* smallest k > 0 with a * 2^k >= b   (0 < a < b)
RECURSIVE ExpDown(_, _)
ExpDown(a, b) == IF 2 * a >= b THEN 1 ELSE 1 + ExpDown(2 * a, b)

\* number of binary digits of n > 0
RECURSIVE BitLen(_)
BitLen(n) == IF n = 0 THEN 0 ELSE 1 + BitLen(n \div 2)

\* fraction + 1 in the last place; a carry out of the fraction doubles the
\* value's leading 1, so the exponent grows and the fraction is zero
FloatNextUp(x) ==
    LET f == x.f
    IN  IF f[4] + 1 < Base THEN [e |-> x.e, f |-> <<f[1], f[2], f[3], f[4] + 1>>]
        ELSE IF f[3] + 1 < Base THEN [e |-> x.e, f |-> <<f[1], f[2], f[3] + 1, 0>>]
        ELSE IF f[2] + 1 < Base THEN [e |-> x.e, f |-> <<f[1], f[2] + 1, 0, 0>>]
        ELSE IF f[1] + 1 < Base THEN [e |-> x.e, f |-> <<f[1] + 1, 0, 0, 0>>]
        ELSE [e |-> x.e + 1, f |-> <<0, 0, 0, 0>>]

\* round to nearest, ties to even: guard is the first bit dropped, sticky
\* whether any bit below it is set
RoundNearestEven(x, guard, sticky) ==
    IF guard = 1 /\ (sticky \/ x.f[4] % 2 = 1) THEN FloatNextUp(x) ELSE x

\* a / b for integers a > 0, b > 0 (both exact float64 values): long division,
\* 13 quotient bits at a time
FloatDiv(a, b) ==
    LET e == IF a >= b THEN ExpUp(a, b) ELSE 0 - ExpDown(a, b)
        num == IF e >= 0 THEN a ELSE a * Pow2(0 - e)
        den == IF e >= 0 THEN b * Pow2(e) ELSE b
        r0 == num - den
        d1 == (r0 * Base) \div den
        r1 == (r0 * Base) % den
        d2 == (r1 * Base) \div den
        r2 == (r1 * Base) % den
        d3 == (r2 * Base) \div den
        r3 == (r2 * Base) % den
        d4 == (r3 * Base) \div den
        r4 == (r3 * Base) % den
        guard == IF 2 * r4 >= den THEN 1 ELSE 0
    IN  RoundNearestEven([e |-> e, f |-> <<d1, d2, d3, d4>>],
                         guard, 2 * r4 - guard * den > 0)

\* x * k for a float64 x > 0 and a small integer k > 0
FloatMulInt(x, k) ==
    LET t4 == x.f[4] * k
        t3 == x.f[3] * k + (t4 \div Base)
        t2 == x.f[2] * k + (t3 \div Base)
        t1 == x.f[1] * k + (t2 \div Base)
        top == k + (t1 \div Base)            \* the leading 1 times k, plus carry
        s == BitLen(top) - 1                 \* bits the product grew by
        cut == Pow2(s)
        up == Pow2(DigitBits - s)
        p1 == t1 % Base
        p2 == t2 % Base
        p3 == t3 % Base
        p4 == t4 % Base
        f == << (top % cut) * up + (p1 \div cut), (p1 % cut) * up + (p2 \div cut),
                (p2 % cut) * up + (p3 \div cut), (p3 % cut) * up + (p4 \div cut) >>
        dropped == p4 % cut
        guard == IF s = 0 THEN 0 ELSE (dropped * 2) \div cut
    IN  RoundNearestEven([e |-> x.e + s, f |-> f], guard,
                         s > 0 /\ (dropped * 2) % cut > 0)

\* int(x) for a float64 x > 0: truncation toward zero
FloatToInt(x) ==
    IF x.e < 0 THEN 0
    ELSE IF x.e <= DigitBits
    THEN Pow2(x.e) + (x.f[1] \div Pow2(DigitBits - x.e))
    ELSE Pow2(x.e) + x.f[1] * Pow2(x.e - DigitBits)
         + (x.f[2] \div Pow2(2 * DigitBits - x.e))

\* the percentage of the price still paid: the numerator is the current price
calculateDiscount_paid(current, original) ==
    IF original <= 0 \/ current >= original THEN 0
    ELSE IF current <= 0 THEN 0
    ELSE FloatToInt(FloatMulInt(FloatDiv(current, original), 100))

\* calculateDiscount; prices are whole numbers, so original - current is exact
\* in float64
calculateDiscount(current, original) ==
    IF original <= 0 \/ current >= original THEN 0
    ELSE FloatToInt(FloatMulInt(FloatDiv(original - current, original), 100))

\* ------------------------------------------------------------------------
\* Data: products, calendars, feed entries
\* ------------------------------------------------------------------------
\* The zero time.Time, which an unparseable validFrom collapses to.
ZeroTime == 0

\* A validFrom string is either an RFC3339 timestamp denoting the instant t
\* (1..MaxStamp, all later than the zero time) or text time.Parse rejects.
ValidFromStrings ==
    {[ok |-> TRUE, t |-> t] : t \in 1..MaxStamp} \cup {[ok |-> FALSE, t |-> 0]}

parseValidFrom(validFrom) == IF validFrom.ok THEN validFrom.t ELSE ZeroTime

\* the comparator with Before in place of After: oldest first
less_before(p, q) == parseValidFrom(p.ValidFrom) < parseValidFrom(q.ValidFrom)

\* the comparator given to sort.Slice: ti.After(tj)
less(p, q) == parseValidFrom(p.ValidFrom) > parseValidFrom(q.ValidFrom)

Orders(n) ==
    {f \in [1..n -> 1..n] : \A i, j \in 1..n : i # j => f[i] # f[j]}

\* sort.Slice is not stable: it may leave the slice in any order in which no
\* element is less than one placed before it. order[k] is the index, in the
\* input, of the product placed k-th.
SortOrders(products) ==
    {order \in Orders(Len(products)) :
        \A a, b \in 1..Len(products) :
            a < b => ~less(products[order[b]], products[order[a]])}

\* the entry id built from the price instead of the product id
stableID_price(p) == <<"urn:advent:", p.Price>>

stableID(p) == <<"urn:advent:", p.ProductID>>

productURL(p) == <<"BaseURL", "/product/", p.ProductID>>

\* the discount of one product, as buildAtomFeed computes it
discountOf(p) ==
    IF p.InsteadOfPrice # Nil THEN calculateDiscount(p.Price, p.InsteadOfPrice[1])
    ELSE 0

\* one AtomEntry; the title, summary and content are kept as the values they
\* are formatted from
buildEntry(p) ==
    [ID |-> stableID(p),
     Link |-> productURL(p),
     Updated |-> parseValidFrom(p.ValidFrom),
     Discount |-> discountOf(p),
     Price |-> <<p.Price, p.InsteadOfPrice>>,
     Stock |-> <<p.NumberOfItems - p.NumberOfItemsSold, p.NumberOfItems>>]

\* buildAtomFeed: the products are copied and sorted (order is the outcome of
\* sort.Slice), one entry is appended per product, Updated is time.Now()
buildAtomFeed(calendar, order, t) ==
    [Title |-> calendar.Title,
     Updated |-> t,
     Entries |-> [k \in 1..Len(calendar.Products) |->
                     buildEntry(calendar.Products[order[k]])]]

\* ------------------------------------------------------------------------
\* Upstream responses and fetchAdventCalendar
\* ------------------------------------------------------------------------
StatusOK == 200

\* a body is [ok |-> whether it decodes as a JSON array of envelopes,
\*            envelopes |-> the adventCalendar payloads of the decoded array]
Malformed == [ok |-> FALSE, envelopes |-> <<>>]
Decoded(envelopes) == [ok |-> TRUE, envelopes |-> envelopes]

\* the status check written as "any 2xx"
statusAccepted_2xx(status) == status >= 200 /\ status <= 299

statusAccepted(status) == status = StatusOK

\* resp is what client.Do and the body give: netErr (no response at all), the
\* status code, and the body
fetchAdventCalendar(resp) ==
    IF resp.netErr
    THEN [calendar |-> Nil, err |-> <<"failed to fetch data">>]
    ELSE IF ~statusAccepted(resp.status)
    THEN [calendar |-> Nil, err |-> <<"API returned status", resp.status, resp.body>>]
    ELSE IF ~resp.body.ok
    THEN [calendar |-> Nil, err |-> <<"failed to decode response">>]
    ELSE IF Len(resp.body.envelopes) = 0
    THEN [calendar |-> Nil, err |-> <<"empty response from API">>]
    ELSE [calendar |-> Ref(resp.body.envelopes[1]), err |-> Nil]

\* ------------------------------------------------------------------------
\* State
\* ------------------------------------------------------------------------
VARIABLES
    cache,      \* the Cache: [data, fetchedAt]; data is Nil or a built feed
    duration,   \* Cache.duration (config.CacheDuration), fixed at startup
    now,        \* the clock read by time.Now and time.Since
    pc,         \* where each request is inside getFeed
    loc,        \* the locals of each getFeed call; fetches counts its upstream
                \* calls, recvAt is when its upstream response arrived
    built,      \* feeds built so far: the next *AtomFeed is number built + 1
    lastSet,    \* history: the feed and time of the latest Cache.Set
    inp,        \* input handed to a pure function (builder, discount, fetch)
    out,        \* its result
    prev        \* the builder's previous result

vars == <<cache, duration, now, pc, loc, built, lastSet, inp, out, prev>>

service == <<cache, duration, now, pc, loc, built, lastSet>>
pure == <<inp, out, prev>>

Procs == 1..NumProcs

\* a product as far as the builder reads it
Product(id, price, instead, validFrom) ==
    [ProductID |-> id, Price |-> price, InsteadOfPrice |-> instead,
     ValidFrom |-> validFrom, NumberOfItems |-> 50, NumberOfItemsSold |-> 20]

\* the calendar the upstream serves to the service: yesterday's deal and
\* today's
ServedCalendars ==
    {[Title |-> "Advent",
      Products |-> <<Product(1, 8, Ref(10), [ok |-> TRUE, t |-> 1]),
                     Product(2, 5, Nil, [ok |-> TRUE, t |-> 2])>>]}

\* what one upstream call of the service can meet
ServedResponses ==
    {[netErr |-> TRUE, status |-> 0, body |-> Malformed],
     [netErr |-> FALSE, status |-> 503, body |-> Malformed]}
    \cup {[netErr |-> FALSE, status |-> StatusOK, body |-> Decoded(<<c>>)] :
              c \in ServedCalendars}

NoLocals ==
    [cached |-> Nil, calendar |-> Nil, err |-> Nil, feed |-> Nil,
     ret |-> Nil, fetches |-> 0, recvAt |-> 0]

Init ==
    /\ cache = [data |-> Nil, fetchedAt |-> ZeroTime]
    /\ duration \in (0 - 1)..MaxTTL
    /\ now = 1
    /\ pc = [p \in Procs |-> "idle"]
    /\ loc = [p \in Procs |-> NoLocals]
    /\ built = 0
    /\ lastSet = Nil
    /\ inp = Nil /\ out = Nil /\ prev = Nil

\* ------------------------------------------------------------------------
\* Cache
\* ------------------------------------------------------------------------
\* the freshness test with <= in place of <
CacheGet_inclusive(c, t) ==
    IF c.data # Nil /\ t - c.fetchedAt <= duration THEN c.data ELSE Nil

\* Cache.Get; time.Since(c.fetchedAt) is t - c.fetchedAt
CacheGet(c, t) ==
    IF c.data # Nil /\ t - c.fetchedAt < duration THEN c.data ELSE Nil

\* a Set that keeps the time of the first fill
CacheSet_keepTime(c, feed, t) ==
    [data |-> feed, fetchedAt |-> IF c.data = Nil THEN t ELSE c.fetchedAt]

\* a Set that only fills an empty cache
CacheSet_ifEmpty(c, feed, t) ==
    IF c.data = Nil THEN [data |-> feed, fetchedAt |-> t] ELSE c

\* Cache.Set
CacheSet(c, feed, t) == [data |-> feed, fetchedAt |-> t]

\* ------------------------------------------------------------------------
\* getFeed, one step at a time. Cache.Get and Cache.Set run under the
\* cache's lock, so each is one atomic step; nothing else is shared.
\* ------------------------------------------------------------------------
\* a hit that also restarts the freshness window
ServeFromCache_touch(p) ==
    /\ pc[p] = "idle"
    /\ CacheGet(cache, now) # Nil
    /\ loc' = [loc EXCEPT ![p].cached = CacheGet(cache, now),
                          ![p].ret = Ref([feed |-> CacheGet(cache, now), err |-> Nil])]
    /\ cache' = [cache EXCEPT !.fetchedAt = now]
    /\ pc' = [pc EXCEPT ![p] = "done"]
    /\ UNCHANGED <<duration, now, built, lastSet, pure>>

\* feedHandler calls getFeed; cache.Get() returns a feed: getFeed returns it
ServeFromCache(p) ==
    /\ pc[p] = "idle"
    /\ CacheGet(cache, now) # Nil
    /\ loc' = [loc EXCEPT ![p].cached = CacheGet(cache, now),
                          ![p].ret = Ref([feed |-> CacheGet(cache, now), err |-> Nil])]
    /\ pc' = [pc EXCEPT ![p] = "done"]
    /\ UNCHANGED <<cache, duration, now, built, lastSet, pure>>

\* feedHandler calls getFeed; cache.Get() returns nil: getFeed goes on to the
\* upstream
CacheMiss(p) ==
    /\ pc[p] = "idle"
    /\ CacheGet(cache, now) = Nil
    /\ pc' = [pc EXCEPT ![p] = "fetch"]
    /\ UNCHANGED <<cache, duration, now, loc, built, lastSet, pure>>

\* calendar, err := fetchAdventCalendar()
Fetch(p) ==
    /\ pc[p] = "fetch"
    /\ \E resp \in ServedResponses :
          LET r == fetchAdventCalendar(resp)
          IN  loc' = [loc EXCEPT ![p].calendar = r.calendar,
                                 ![p].err = r.err,
                                 ![p].fetches = @ + 1,
                                 ![p].recvAt = IF r.err = Nil THEN now ELSE 0]
    /\ pc' = [pc EXCEPT ![p] = "fetched"]
    /\ UNCHANGED <<cache, duration, now, built, lastSet, pure>>

\* on an error, serve what the cache still holds
PropagateError_stale(p) ==
    /\ pc[p] = "fetched"
    /\ loc[p].err # Nil
    /\ loc' = [loc EXCEPT ![p].ret =
                   IF cache.data # Nil THEN Ref([feed |-> cache.data, err |-> Nil])
                   ELSE Ref([feed |-> Nil, err |-> loc[p].err])]
    /\ pc' = [pc EXCEPT ![p] = "done"]
    /\ UNCHANGED <<cache, duration, now, built, lastSet, pure>>

\* if err != nil { return nil, err }
PropagateError(p) ==
    /\ pc[p] = "fetched"
    /\ loc[p].err # Nil
    /\ loc' = [loc EXCEPT ![p].ret = Ref([feed |-> Nil, err |-> loc[p].err])]
    /\ pc' = [pc EXCEPT ![p] = "done"]
    /\ UNCHANGED <<cache, duration, now, built, lastSet, pure>>

\* feed := buildAtomFeed(calendar); ptr tells one *AtomFeed from another,
\* recvAt and by record the history: when the response the feed is built
\* from was received, and which request built it
Build(p) ==
    /\ pc[p] = "fetched"
    /\ loc[p].err = Nil
    /\ built < MaxBuilds
    /\ \E order \in SortOrders(loc[p].calendar[1].Products) :
          loc' = [loc EXCEPT ![p].feed =
                     Ref([ptr |-> built + 1,
                          doc |-> buildAtomFeed(loc[p].calendar[1], order, now),
                          recvAt |-> loc[p].recvAt, by |-> p])]
    /\ built' = built + 1
    /\ pc' = [pc EXCEPT ![p] = "built"]
    /\ UNCHANGED <<cache, duration, now, lastSet, pure>>

\* cache.Set(feed); return feed, nil
Store(p) ==
    /\ pc[p] = "built"
    /\ cache' = CacheSet(cache, loc[p].feed, now)
    /\ lastSet' = Ref([feed |-> loc[p].feed, at |-> now])
    /\ loc' = [loc EXCEPT ![p].ret = Ref([feed |-> loc[p].feed, err |-> Nil])]
    /\ pc' = [pc EXCEPT ![p] = "done"]
    /\ UNCHANGED <<duration, now, built, pure>>

\* feedHandler has written the response; the goroutine is free again
Return(p) ==
    /\ pc[p] = "done"
    /\ pc' = [pc EXCEPT ![p] = "idle"]
    /\ loc' = [loc EXCEPT ![p] = NoLocals]
    /\ UNCHANGED <<cache, duration, now, built, lastSet, pure>>

\* time passes
Tick ==
    /\ now < MaxTime
    /\ now' = now + 1
    /\ UNCHANGED <<cache, duration, pc, loc, built, lastSet, pure>>

Next ==
    \/ Tick
    \/ \E p \in Procs :
          \/ ServeFromCache(p)
          \/ CacheMiss(p)
          \/ Fetch(p)
          \/ PropagateError(p)
          \/ Build(p)
          \/ Store(p)
          \/ Return(p)

\* requests served concurrently
Spec == Init /\ [][Next]_vars

NextSeq ==
    \/ Tick
    \/ \E p \in {1} :
          \/ ServeFromCache(p)
          \/ CacheMiss(p)
          \/ Fetch(p)
          \/ PropagateError(p)
          \/ Build(p)
          \/ Store(p)
          \/ Return(p)

\* requests served one after the other
SpecSeq == Init /\ [][NextSeq]_vars

TypeOK ==
    /\ cache.data # Nil => cache.data[1].ptr \in 1..built
    /\ duration \in (0 - 1)..MaxTTL
    /\ now \in 1..MaxTime
    /\ pc \in [Procs -> {"idle", "fetch", "fetched", "built", "done"}]
    /\ built \in 0..MaxBuilds

\* ------------------------------------------------------------------------
\* The pure functions on their own: the service stands still
\* ------------------------------------------------------------------------
ServiceAtRest ==
    /\ cache = [data |-> Nil, fetchedAt |-> ZeroTime]
    /\ duration = MaxTTL
    /\ now = 1
    /\ pc = [p \in Procs |-> "idle"]
    /\ loc = [p \in Procs |-> NoLocals]
    /\ built = 0
    /\ lastSet = Nil

\* --- the discount of one product ---
\* amountInclusive values: whole numbers, a negative one included
Prices == (0 - 1)..MaxPrice

DiscountInputs ==
    {Product(1, price, instead, [ok |-> TRUE, t |-> 1]) :
        price \in Prices, instead \in {Nil} \cup {Ref(o) : o \in Prices}}

InitDiscount ==
    /\ ServiceAtRest
    /\ inp \in DiscountInputs
    /\ out = Nil /\ prev = Nil

ComputeDiscount ==
    /\ out = Nil
    /\ out' = Ref(discountOf(inp))
    /\ UNCHANGED <<service, inp, prev>>

SpecDiscount == InitDiscount /\ [][ComputeDiscount]_vars

\* --- the builder ---
\* the product ids of a calendar are 1, 2, ... in the order the upstream
\* lists them
BuilderProducts(n) ==
    {[i \in 1..n |-> Product(i, 8, Ref(10), stamps[i])] :
        stamps \in [1..n -> ValidFromStrings]}

RECURSIVE SeqsUpTo(_, _)
SeqsUpTo(S, n) ==
    IF n = 0 THEN {<<>>}
    ELSE LET shorter == SeqsUpTo(S, n - 1)
         IN  shorter \cup {Append(q, x) : q \in {r \in shorter : Len(r) = n - 1}, x \in S}

BuilderCalendars ==
    {[Title |-> "Advent", Products |-> ps] :
        ps \in UNION {BuilderProducts(n) : n \in 0..MaxProducts}}

InitBuild ==
    /\ ServiceAtRest
    /\ inp \in BuilderCalendars
    /\ out = Nil /\ prev = Nil

\* buildAtomFeed(calendar); from and order record what the feed was built
\* from and where sort.Slice put each product
BuildFeed ==
    /\ out = Nil
    /\ \E order \in SortOrders(inp.Products) :
          out' = Ref([feed |-> buildAtomFeed(inp, order, now),
                      from |-> inp, order |-> order])
    /\ UNCHANGED <<service, inp, prev>>

\* the next upstream snapshot: the same products, one of them with another
\* price, stock and valid-from
Requote ==
    /\ out # Nil /\ prev = Nil
    /\ \E i \in 1..Len(inp.Products), price \in {7, 8}, validFrom \in ValidFromStrings :
          /\ <<price, validFrom>> # <<inp.Products[i].Price, inp.Products[i].ValidFrom>>
          /\ inp' = [inp EXCEPT !.Products[i].Price = price,
                                !.Products[i].ValidFrom = validFrom,
                                !.Products[i].NumberOfItemsSold = 20 + price]
    /\ prev' = out
    /\ out' = Nil
    /\ UNCHANGED service

NextBuild == BuildFeed \/ Requote

SpecBuild == InitBuild /\ [][NextBuild]_vars

\* --- the classification of the upstream outcome ---
Statuses == {200, 201, 204, 301, 404, 500}

Bodies ==
    {Malformed} \cup {Decoded(es) : es \in SeqsUpTo(ServedCalendars \cup
                          {[Title |-> "Other", Products |-> <<>>]}, 2)}

Responses == [netErr : BOOLEAN, status : Statuses, body : Bodies]

InitFetch ==
    /\ ServiceAtRest
    /\ inp \in Responses
    /\ out = Nil /\ prev = Nil

DoFetch ==
    /\ out = Nil
    /\ out' = Ref(fetchAdventCalendar(inp))
    /\ UNCHANGED <<service, inp, prev>>

SpecFetch == InitFetch /\ [][DoFetch]_vars

\* ------------------------------------------------------------------------
\* Properties
\* ------------------------------------------------------------------------
Fresh == cache.data # Nil /\ now - cache.fetchedAt < duration

\* the step by which request p leaves the place at
Leaves(p, at) == pc[p] = at /\ pc'[p] # at

\* C1: Cache.Get returns the stored document exactly when one is stored and
\* now - fetchedAt < duration; otherwise (nothing stored, the entry as old as
\* the duration or older, a duration of zero or less) it returns nil; and in
\* every case the stored document and fetchedAt stay as they are.
C1_GetHitIffFresh ==
    [][\A p \in Procs :
          Leaves(p, "idle") =>
            /\ cache' = cache
            /\ IF Fresh
               THEN pc'[p] = "done" /\ loc'[p].cached = cache.data
               ELSE pc'[p] = "fetch" /\ loc'[p].cached = Nil
            /\ (duration <= 0 => pc'[p] = "fetch")]_vars

\* a request was served from the cache, and another one missed on an entry
\* that is still stored but has expired
C1_Witness ==
    \E p, q \in Procs :
        /\ pc[p] = "done" /\ loc[p].cached # Nil
        /\ pc[q] = "fetch" /\ loc[q].cached = Nil
        /\ cache.data # Nil /\ now - cache.fetchedAt >= duration

\* C2: a getFeed call that finds the cache fresh returns the cached document
\* and no error, without any fetch or build, and leaves the cache's document
\* and fetchedAt untouched.
C2_HitServesCache ==
    [][\A p \in Procs :
          (Leaves(p, "idle") /\ Fresh) =>
            /\ pc'[p] = "done"
            /\ loc'[p].ret = Ref([feed |-> cache.data, err |-> Nil])
            /\ loc'[p].fetches = 0 /\ loc'[p].feed = Nil
            /\ built' = built
            /\ cache' = cache]_vars

\* a request was served from a cache that was filled at an earlier time and is
\* still fresh
C2_Witness ==
    \E p \in Procs :
        /\ pc[p] = "done" /\ loc[p].cached # Nil /\ loc[p].fetches = 0
        /\ loc[p].ret = Ref([feed |-> cache.data, err |-> Nil])
        /\ cache.fetchedAt < now /\ Fresh

\* C3: after a miss, a failed fetch makes getFeed return that error and no
\* document, after one fetch and no more, even when an expired document is
\* still stored; none of the call's steps changes the cache.
C3_FetchErrorPropagates ==
    [][\A p \in Procs :
          /\ (Leaves(p, "idle") /\ ~Fresh) => cache' = cache
          /\ Leaves(p, "fetch") =>
                pc'[p] = "fetched" /\ loc'[p].fetches = 1 /\ cache' = cache
          /\ (Leaves(p, "fetched") /\ loc[p].err # Nil) =>
                /\ pc'[p] = "done"
                /\ loc'[p].ret = Ref([feed |-> Nil, err |-> loc[p].err])
                /\ loc'[p].fetches = 1
                /\ cache' = cache]_vars

\* a call has returned an error although an expired document is stored
C3_Witness ==
    \E p \in Procs :
        /\ pc[p] = "done" /\ loc[p].err # Nil
        /\ loc[p].ret = Ref([feed |-> Nil, err |-> loc[p].err])
        /\ cache.data # Nil /\ now - cache.fetchedAt >= duration

\* C4: after a miss and a successful fetch getFeed builds a new document,
\* Cache.Set stores it whatever was stored before, with fetchedAt the time
\* of the Set, and getFeed returns it; with requests served one after the
\* other, a call made less than the duration after that Set returns that
\* document without a fetch.
C4_FillThenServe ==
    [][/\ (Leaves(1, "fetched") /\ loc[1].err = Nil) =>
            /\ pc'[1] = "built"
            /\ loc'[1].feed # Nil /\ loc'[1].feed # cache.data
       /\ Leaves(1, "built") =>
            /\ pc'[1] = "done"
            /\ cache' = [data |-> loc[1].feed, fetchedAt |-> now]
            /\ loc'[1].ret = Ref([feed |-> loc[1].feed, err |-> Nil])
       /\ (Leaves(1, "idle") /\ lastSet # Nil /\ now - lastSet[1].at < duration) =>
            /\ pc'[1] = "done"
            /\ loc'[1].ret = Ref([feed |-> lastSet[1].feed, err |-> Nil])
            /\ loc'[1].fetches = 0]_vars

\* the second document stored (it replaced an earlier one) has been served
\* from the cache
C4_Witness ==
    /\ pc[1] = "done" /\ loc[1].cached # Nil /\ loc[1].fetches = 0
    /\ lastSet # Nil /\ loc[1].cached = lastSet[1].feed
    /\ loc[1].cached[1].ptr >= 2

Missed(p) == pc[p] \in {"fetched", "built", "done"} /\ loc[p].cached = Nil

\* C5: nothing merges concurrent misses: every call that missed does its own
\* fetch, every one that fetched successfully builds and returns its own
\* document, and the cache holds the document and time of the latest Set.
C5_NoSingleFlight ==
    /\ \A p \in Procs : Missed(p) => loc[p].fetches = 1
    /\ \A p \in Procs :
          (Missed(p) /\ loc[p].err = Nil /\ pc[p] # "fetched") =>
            /\ loc[p].feed # Nil
            /\ loc[p].feed[1].by = p
            /\ pc[p] = "done" => loc[p].ret = Ref([feed |-> loc[p].feed, err |-> Nil])
    /\ \A p, q \in Procs :
          (p # q /\ loc[p].feed # Nil) => loc[p].feed # loc[q].feed
    /\ IF lastSet = Nil THEN cache.data = Nil
       ELSE cache = [data |-> lastSet[1].feed, fetchedAt |-> lastSet[1].at]

\* two calls missed together; each fetched, built and returned its own
\* document, and the cache holds one of the two
C5_Witness ==
    \E p, q \in Procs :
        /\ p # q /\ pc[p] = "done" /\ pc[q] = "done"
        /\ Missed(p) /\ Missed(q) /\ loc[p].err = Nil /\ loc[q].err = Nil
        /\ loc[p].feed[1].recvAt = loc[q].feed[1].recvAt
        /\ loc[p].ret[1].feed # loc[q].ret[1].feed
        /\ cache.data = loc[q].feed
        /\ \A r \in Procs : pc[r] \in {"idle", "done"}

\* C10: the cached document is never replaced by one built from an upstream
\* response received earlier than the response the stored document was built
\* from, and a document served from the cache was received from upstream
\* less than the duration before it is served.
C10_FreshnessMonotone ==
    [][/\ (cache.data # Nil /\ cache'.data # cache.data) =>
            cache'.data[1].recvAt >= cache.data[1].recvAt
       /\ \A p \in Procs :
            (pc[p] = "idle" /\ pc'[p] = "done") =>
                now - cache.data[1].recvAt < duration]_vars

\* --- the discount ---
\* floor((O - C) / O * 100) in exact arithmetic, for O > 0
ExactPercent(C, O) == (100 * (O - C)) \div O

\* C6: the discount is 0 without an original price; with original price O and
\* current price C it is 0 if O <= 0 or C >= O and floor((O - C)/O * 100)
\* otherwise; and 0 <= discount < 100 for every input.
C6_DiscountAsStated ==
    out # Nil =>
        LET d == out[1]
            C == inp.Price
        IN  IF inp.InsteadOfPrice = Nil THEN d = 0
            ELSE LET O == inp.InsteadOfPrice[1]
                 IN  /\ IF O <= 0 \/ C >= O THEN d = 0 ELSE d = ExactPercent(C, O)
                     /\ 0 <= d /\ d < 100

\* C6 as the code has it: 0 without an original price, 0 if O <= 0 or
\* C >= O; otherwise the float64 value ((O - C)/O) * 100 cut to an integer,
\* which for whole-number prices is floor((O - C)/O * 100), or one less when
\* the exact percentage is itself a whole number; the discount is never
\* negative, at most 100 when C >= 0, 100 when C = 0, 100 or more when C < 0.
C6_DiscountAsComputed ==
    out # Nil =>
        LET d == out[1]
            C == inp.Price
        IN  IF inp.InsteadOfPrice = Nil THEN d = 0
            ELSE LET O == inp.InsteadOfPrice[1]
                 IN  IF O <= 0 \/ C >= O THEN d = 0
                     ELSE /\ d \in {ExactPercent(C, O), ExactPercent(C, O) - 1}
                          /\ (100 * (O - C)) % O # 0 => d = ExactPercent(C, O)
                          /\ d >= 0
                          /\ C >= 0 => d <= 100
                          /\ C = 0 => d = 100
                          /\ C < 0 => d >= 100

\* 21 instead of 50 is 58 % off; the float64 product is just below 58
C6_Witness ==
    /\ out # Nil /\ inp.InsteadOfPrice = Ref(50) /\ inp.Price = 21
    /\ out[1] = 57

\* --- the order and number of the entries ---
\* the product the k-th entry of a built feed was made from
SourceOf(res, k) == res.from.Products[res.order[k]]

Positions(res) == DOMAIN res.feed.Entries

Count(f, x) == Cardinality({k \in DOMAIN f : f[k] = x})

\* one entry per product, none dropped or duplicated
IsPermutationOfInput(res) ==
    /\ Len(res.feed.Entries) = Len(res.from.Products)
    /\ \A i \in DOMAIN res.from.Products :
          Count(res.feed.Entries, buildEntry(res.from.Products[i]))
            = Count([j \in DOMAIN res.from.Products |->
                        buildEntry(res.from.Products[j])],
                    buildEntry(res.from.Products[i]))

\* C7: for every two entries with parseable valid-from timestamps, i comes
\* before j if and only if validFrom(i) >= validFrom(j); and the entries are
\* a permutation of the input products.
C7_OrderAsStated ==
    out # Nil =>
        /\ \A a, b \in Positions(out[1]) :
              (a # b /\ SourceOf(out[1], a).ValidFrom.ok
                     /\ SourceOf(out[1], b).ValidFrom.ok) =>
                (a < b <=> out[1].feed.Entries[a].Updated
                             >= out[1].feed.Entries[b].Updated)
        /\ IsPermutationOfInput(out[1])

\* C7 as the code has it: for every two entries with parseable valid-from
\* timestamps, if i comes before j then validFrom(i) >= validFrom(j), so a
\* later timestamp always comes first and equal timestamps come in either
\* order; and the entries are a permutation of the input products.
C7_OrderDescending ==
    out # Nil =>
        /\ \A a, b \in Positions(out[1]) :
              (SourceOf(out[1], a).ValidFrom.ok
                 /\ SourceOf(out[1], b).ValidFrom.ok) =>
                /\ a < b => out[1].feed.Entries[a].Updated
                              >= out[1].feed.Entries[b].Updated
                /\ out[1].feed.Entries[a].Updated
                     > out[1].feed.Entries[b].Updated => a < b
        /\ IsPermutationOfInput(out[1])

\* a calendar given oldest first has been built newest first, two of its
\* entries sharing a timestamp
C7_Witness ==
    /\ out # Nil /\ Len(out[1].feed.Entries) >= 2
    /\ \E a, b \in Positions(out[1]) :
          /\ a < b /\ out[1].order[a] > out[1].order[b]
          /\ SourceOf(out[1], a).ValidFrom.ok /\ SourceOf(out[1], b).ValidFrom.ok
          /\ out[1].feed.Entries[a].Updated > out[1].feed.Entries[b].Updated
    /\ \E a, b \in Positions(out[1]) :
          /\ a # b /\ SourceOf(out[1], a).ValidFrom.ok
          /\ out[1].feed.Entries[a].Updated = out[1].feed.Entries[b].Updated

\* C8: the entry id is urn:advent:<productId> and depends on nothing else:
\* two feeds built from snapshots that differ in price, stock or valid-from
\* give every product the same entry id.
C8_StableId ==
    /\ out # Nil =>
          \A k \in Positions(out[1]) :
              out[1].feed.Entries[k].ID
                = <<"urn:advent:", SourceOf(out[1], k).ProductID>>
    /\ (out # Nil /\ prev # Nil) =>
          \A k \in Positions(prev[1]), m \in Positions(out[1]) :
              SourceOf(prev[1], k).ProductID = SourceOf(out[1], m).ProductID
                => prev[1].feed.Entries[k].ID = out[1].feed.Entries[m].ID

\* a feed has been rebuilt after a product changed price, stock and order:
\* its entry differs, its id does not
C8_Witness ==
    /\ out # Nil /\ prev # Nil
    /\ \E k \in Positions(prev[1]), m \in Positions(out[1]) :
          /\ k # m
          /\ SourceOf(prev[1], k).ProductID = SourceOf(out[1], m).ProductID
          /\ SourceOf(prev[1], k).Price # SourceOf(out[1], m).Price
          /\ prev[1].feed.Entries[k].Stock # out[1].feed.Entries[m].Stock
          /\ prev[1].feed.Entries[k].ID = out[1].feed.Entries[m].ID

\* --- the classification of the upstream outcome ---
Outcome(r) ==
    IF r.err = Nil THEN "calendar"
    ELSE IF r.err[1] = "failed to fetch data" THEN "network error"
    ELSE IF r.err[1] = "API returned status" THEN "status error"
    ELSE IF r.err[1] = "failed to decode response" THEN "decode error"
    ELSE IF r.err[1] = "empty response from API" THEN "empty payload error"
    ELSE "other"

\* what follows the status check is the same in the claim and in the code
BodyOutcome(resp, r) ==
    IF ~resp.body.ok THEN Outcome(r) = "decode error" /\ r.calendar = Nil
    ELSE IF Len(resp.body.envelopes) = 0
    THEN Outcome(r) = "empty payload error" /\ r.calendar = Nil
    ELSE Outcome(r) = "calendar" /\ r.calendar = Ref(resp.body.envelopes[1])

\* C9: a network failure gives a network error; a status outside 200..299
\* gives a status error and a status inside it does not; a 2xx response with
\* a malformed body gives a decode error, with an empty array an
\* empty-payload error, and with a non-empty array the adventCalendar of
\* element 0.
C9_ClassifiedBy2xx ==
    out # Nil =>
        IF inp.netErr THEN Outcome(out[1]) = "network error" /\ out[1].calendar = Nil
        ELSE IF inp.status < 200 \/ inp.status > 299
        THEN Outcome(out[1]) = "status error" /\ out[1].calendar = Nil
        ELSE BodyOutcome(inp, out[1])

\* C9 as the code has it: the status error is given for every status other
\* than 200, the other 2xx codes included; the rest as stated.
C9_ClassifiedBy200 ==
    out # Nil =>
        IF inp.netErr THEN Outcome(out[1]) = "network error" /\ out[1].calendar = Nil
        ELSE IF inp.status # 200
        THEN /\ Outcome(out[1]) = "status error" /\ out[1].calendar = Nil
             /\ out[1].err = <<"API returned status", inp.status, inp.body>>
        ELSE BodyOutcome(inp, out[1])

\* a 201 response with a well-formed, non-empty body has been refused
C9_Witness ==
    /\ out # Nil /\ ~inp.netErr /\ inp.status = 201
    /\ inp.body.ok /\ Len(inp.body.envelopes) > 0
    /\ Outcome(out[1]) = "status error"

====
